---------------------------- MODULE Spec2Model ----------------------------
(***************************************************************************)
(* A model of study/application/create_dataset.py: the easing library      *)
(* (ease_constant, ease_linear, ease_in_out), the two curve samplers, the  *)
(* probability model, the classifier and the dataset generator.            *)
(*                                                                         *)
(* Numbers.  The program computes with Python floats (IEEE-754 binary64,   *)
(* round to nearest, ties to even) and small Python ints.  A number is the *)
(* record [sg, bits]: sg is its sign and bits the set of exponents of the  *)
(* 1 bits of its magnitude, so that 22.5 = 2^4 + 2^2 + 2^1 + 2^-1 is       *)
(* [sg |-> 1, bits |-> {4, 2, 1, -1}].  The representation is canonical    *)
(* (equal numbers are equal records) and exact; a float operation is the   *)
(* exact operation followed by RoundM, which keeps 53 significant bits.    *)
(* Magnitudes stay far from the overflow and underflow thresholds, so      *)
(* infinities, NaN and subnormals do not arise; -0.0 is identified with 0  *)
(* and an int with the float of the same value (Python compares them       *)
(* equal).  x ** 3 is the correctly rounded cube.                          *)
(***************************************************************************)
EXTENDS Integers, FiniteSets, Sequences

----------------------------------------------------------------------------
(* Exact arithmetic on magnitudes (finite sets of bit exponents).          *)

RECURSIVE NatBits(_)
NatBits(n) ==
    IF n = 0 THEN {}
    ELSE (IF n % 2 = 1 THEN {0} ELSE {}) \cup {k + 1 : k \in NatBits(n \div 2)}

Shift(B, k) == {i + k : i \in B}

\* The set S, with its elements listed.
Enum(S) == {i : i \in S}

\* The bits in exactly one of A and B.
Xor(A, B) == Enum((A \ B) \cup (B \ A))

MinBit(S) == CHOOSE m \in S : \A i \in S : m <= i

\* The greatest element, found as the least one of the mirrored set.
MaxBit(S) == -MinBit({-i : i \in S})

\* Carry propagation.  G holds the positions that generate a carry and P
\* those that pass one on; the result holds the positions a carry leaves.
\* Each round joins every position with the one d below it and doubles d.
RECURSIVE Ripple(_, _, _)
Ripple(G, P, d) ==
    IF G = {} \/ P = {} THEN G
    ELSE Ripple(Enum(G \cup (P \cap Shift(G, d))), Enum(P \cap Shift(P, d)), 2 * d)

\* A + B: a position generates a carry when both have the bit and passes
\* one on when exactly one has it.
AddM(A, B) ==
    IF A = {} THEN B
    ELSE IF B = {} THEN A
    ELSE Xor(Xor(A, B), Shift(Ripple(Enum(A \cap B), Xor(A, B), 1), 1))

\* A - B for A >= B: a position generates a borrow when only B has the bit
\* and passes one on when A and B agree on it.
SubM(A, B) ==
    IF A = {} \/ B = {} THEN A
    ELSE LET same == {i \in MinBit(B)..MaxBit(A) : (i \in A) <=> (i \in B)}
         IN Xor(Xor(A, B), Shift(Ripple(Enum(B \ A), same, 1), 1))

\* A < B: the highest bit in which they differ belongs to B.
LtM(A, B) ==
    LET D == Xor(A, B) IN D # {} /\ MaxBit(D) \in B

\* A * B as the sum of the shifts of A by the bits lo..hi of B.
RECURSIVE MulR(_, _, _, _)
MulR(A, B, lo, hi) ==
    IF lo = hi THEN (IF lo \in B THEN Shift(A, lo) ELSE {})
    ELSE LET mid == (lo + hi) \div 2
         IN AddM(MulR(A, B, lo, mid), MulR(A, B, mid + 1, hi))

MulM(A, B) ==
    IF A = {} \/ B = {} THEN {} ELSE MulR(A, B, MinBit(B), MaxBit(B))

\* One step of the long division of a remainder by B: the quotient has bit
\* k when B * 2^k fits in the remainder.
DivStep(st, B, k) ==
    LET S == Shift(B, k)
    IN IF LtM(st.r, S) THEN st
       ELSE [r |-> SubM(st.r, S), q |-> st.q \cup {k}]

\* The steps for the bits hi down to lo, ending early once nothing remains.
RECURSIVE DivSteps(_, _, _, _)
DivSteps(st, B, hi, lo) ==
    IF hi = lo THEN DivStep(st, B, hi)
    ELSE LET mid == (hi + lo) \div 2
             upper == DivSteps(st, B, hi, mid + 1)
         IN IF upper.r = {} THEN upper ELSE DivSteps(upper, B, mid, lo)

\* A / B (B # {}) to 55 quotient bits, and one sticky bit below them when
\* the remainder is not zero: enough for RoundM.
DivM(A, B) ==
    IF A = {} THEN {}
    ELSE LET k  == MaxBit(A) - MaxBit(B)
             st == DivSteps([r |-> A, q |-> {}], B, k, k - 54)
         IN Enum(st.q \cup (IF st.r = {} THEN {} ELSE {k - 56}))

\* Round to nearest, ties to even, keeping Precision significant bits.
Precision == 53

RoundM(B) ==
    IF B = {} THEN {}
    ELSE LET cut  == MaxBit(B) - (Precision - 1)
             keep == Enum({k \in B : k >= cut})
             up   == (cut - 1) \in B /\ ((\E k \in B : k < cut - 1) \/ cut \in B)
         IN IF up THEN AddM(keep, {cut}) ELSE keep

----------------------------------------------------------------------------
(* Python numbers and the float operations the program uses.               *)

Mk(s, B) == IF B = {} THEN [sg |-> 1, bits |-> {}] ELSE [sg |-> s, bits |-> B]

\* The number m * 2^e, for a small integer m.
Dy(m, e) == Mk(IF m < 0 THEN -1 ELSE 1, Shift(NatBits(IF m < 0 THEN -m ELSE m), e))

Zero == Dy(0, 0)
One == Dy(1, 0)
Two == Dy(2, 0)
Four == Dy(4, 0)
Half == Dy(1, -1)

\* The outcome of a call that raises ZeroDivisionError, and of no call yet.
ZeroDivisionError == [sg |-> 0, bits |-> {}]
None == [sg |-> 0, bits |-> {0}]

IsNumber(v) == v.sg # 0

Neg(v) == Mk(-v.sg, v.bits)

Abs(v) == Mk(1, v.bits)

Lt(v, w) ==
    IF v.sg # w.sg THEN v.sg < w.sg
    ELSE IF v.sg = 1 THEN LtM(v.bits, w.bits) ELSE LtM(w.bits, v.bits)

Le(v, w) == v = w \/ Lt(v, w)

\* Python's min and max of two numbers: the first one unless the second is
\* strictly smaller (larger).
Min2(v, w) == IF Lt(w, v) THEN w ELSE v

Max2(v, w) == IF Lt(v, w) THEN w ELSE v

\* v + w exactly.
AddX(v, w) ==
    IF v.sg = w.sg THEN Mk(v.sg, AddM(v.bits, w.bits))
    ELSE IF LtM(v.bits, w.bits) THEN Mk(w.sg, SubM(w.bits, v.bits))
    ELSE Mk(v.sg, SubM(v.bits, w.bits))

\* The float nearest to the exact number r.
Rounded(r) == Mk(r.sg, RoundM(r.bits))

\* An operand that is a raised exception: the operation does not take place
\* and the exception goes on to the caller.
Raises(v, w) == v = ZeroDivisionError \/ w = ZeroDivisionError

FAdd(v, w) ==
    IF Raises(v, w) THEN ZeroDivisionError ELSE Rounded(AddX(v, w))

FSub(v, w) ==
    IF Raises(v, w) THEN ZeroDivisionError ELSE Rounded(AddX(v, Neg(w)))

FMul(v, w) ==
    IF Raises(v, w) THEN ZeroDivisionError
    ELSE Mk(v.sg * w.sg, RoundM(MulM(v.bits, w.bits)))

FDiv(v, w) ==
    IF Raises(v, w) \/ w = Zero THEN ZeroDivisionError
    ELSE Mk(v.sg * w.sg, RoundM(DivM(v.bits, w.bits)))

FPow3(v) ==
    IF v = ZeroDivisionError THEN ZeroDivisionError
    ELSE Mk(v.sg, RoundM(MulM(MulM(v.bits, v.bits), v.bits)))

\* The floats next to v (v # 0), as math.nextafter gives them.
NextAway(B) == AddM(B, {MaxBit(B) - (Precision - 1)})

NextToward(B) ==
    SubM(B, {MaxBit(B) - (IF B = {MaxBit(B)} THEN Precision ELSE Precision - 1)})

NextUp(v) == IF v.sg = 1 THEN Mk(1, NextAway(v.bits)) ELSE Mk(-1, NextToward(v.bits))

NextDown(v) == Neg(NextUp(Neg(v)))

----------------------------------------------------------------------------
(* The easing library.                                                     *)

ease_constant(x, start, end) ==
    IF Le(start, x) /\ Le(x, end) THEN One ELSE Zero

\* The position of x in the interval, as both ramps compute it first:
\* (x - min(min_v, max_v)) / abs(max_v - min_v).
position(x, min_v, max_v) ==
    FDiv(FSub(x, Min2(min_v, max_v)), Abs(FSub(max_v, min_v)))

\* ease_linear without the reversal of the ramp for min_v > max_v.
ease_linear_no_reverse(t, min_v, max_v) ==
    IF t = ZeroDivisionError THEN ZeroDivisionError
    ELSE IF Lt(t, Zero) \/ Lt(One, t) THEN Zero
    ELSE t

\* ease_linear from its second statement on, t being the position.
ease_linear_ramp(t, min_v, max_v) ==
    IF t = ZeroDivisionError THEN ZeroDivisionError
    ELSE IF Lt(t, Zero) \/ Lt(One, t) THEN Zero
    ELSE IF Le(min_v, max_v) THEN t
    ELSE FSub(One, t)

ease_linear(x, min_v, max_v) ==
    ease_linear_ramp(position(x, min_v, max_v), min_v, max_v)

\* The cubic of ease_in_out without the division by 2 in its second branch.
ease_in_out_no_halving(u) ==
    IF Lt(u, Half) THEN FMul(Four, FPow3(u))
    ELSE FSub(One, FPow3(FAdd(FMul(Neg(Two), u), Two)))

\* The cubic of ease_in_out: 4 * x ** 3 below 0.5 and
\* 1 - ((-2 * x + 2) ** 3) / 2 from 0.5 on.
ease_in_out_cubic(u) ==
    IF Lt(u, Half) THEN FMul(Four, FPow3(u))
    ELSE FSub(One, FDiv(FPow3(FAdd(FMul(Neg(Two), u), Two)), Two))

\* ease_in_out without the test that sends a point outside the interval to 0.
ease_in_out_unguarded(t, min_v, max_v) ==
    IF t = ZeroDivisionError THEN ZeroDivisionError
    ELSE ease_in_out_cubic(IF Lt(max_v, min_v) THEN FSub(One, t) ELSE t)

\* ease_in_out from its second statement on, t being the position.
ease_in_out_ramp(t, min_v, max_v) ==
    IF t = ZeroDivisionError THEN ZeroDivisionError
    ELSE IF Lt(t, Zero) \/ Lt(One, t) THEN Zero
    ELSE ease_in_out_cubic(IF Lt(max_v, min_v) THEN FSub(One, t) ELSE t)

ease_in_out(x, min_v, max_v) ==
    ease_in_out_ramp(position(x, min_v, max_v), min_v, max_v)

----------------------------------------------------------------------------
(* The curve samplers, the probability model and the classifier.           *)

Quarter == Dy(1, -2)
ThreeQuarters == Dy(3, -2)

\* sample_a1_curve without its plateau segment.
sample_a1_curve_no_plateau(x) ==
    Max2(Max2(Zero, ease_in_out(x, Dy(10, 0), Dy(45, -1))),
         ease_in_out(x, Dy(40, 0), Dy(55, -1)))

\* value = max(value, segment), segment after segment, from value = 0;
\* 22.5 = 45/2 and 27.5 = 55/2.
sample_a1_curve(x) ==
    Max2(Max2(Max2(Zero, ease_in_out(x, Dy(10, 0), Dy(45, -1))),
              ease_constant(x, Dy(45, -1), Dy(55, -1))),
         ease_in_out(x, Dy(40, 0), Dy(55, -1)))

sample_a2_curve(x) ==
    Max2(Max2(Max2(Zero, ease_in_out(x, Dy(100, 0), Dy(120, 0))),
              ease_constant(x, Dy(120, 0), Dy(130, 0))),
         ease_in_out(x, Dy(200, 0), Dy(130, 0)))

\* compute_selection_probability adding the two scores.
compute_selection_probability_sum(a1v, a2v) ==
    FAdd(sample_a1_curve(a1v), sample_a2_curve(a2v))

compute_selection_probability(a1v, a2v) ==
    FMul(sample_a1_curve(a1v), sample_a2_curve(a2v))

\* The class with the upper threshold excluded (prob < 0.25).
class_of_strict(pr) ==
    IF Lt(Zero, pr) /\ Lt(pr, Quarter) THEN ThreeQuarters ELSE Quarter

\* The class compute_class returns for the probability pr.
class_of(pr) ==
    IF Lt(Zero, pr) /\ Le(pr, Quarter) THEN ThreeQuarters ELSE Quarter

compute_class(a1v, a2v) == class_of(compute_selection_probability(a1v, a2v))

----------------------------------------------------------------------------
(* The dataset generator's configuration and its random source.            *)

\* The number of points generated (the program generates 2000).
num_points == 2

a1_range == <<Dy(0, 0), Dy(50, 0)>>
a2_range == <<Dy(100, 0), Dy(200, 0)>>

\* random.uniform(a, b) is a + (b - a) * random(), u being the value
\* random() returns: a multiple of 2^-53 in [0, 1).
uniform(a, b, u) == FAdd(a, FMul(FSub(b, a), u))

\* The values of random() the model draws: the least, 1/4 and the greatest.
RandomDraws == {Zero, Dy(1, -2), Mk(1, {-k : k \in 1..Precision})}

create_a1_value(u) == uniform(a1_range[1], a1_range[2], u)

\* create_a2_value drawing from the first feature's range.
create_a2_value_a1_range(u) == uniform(a1_range[1], a1_range[2], u)

create_a2_value(u) == uniform(a2_range[1], a2_range[2], u)

----------------------------------------------------------------------------
(* State.                                                                  *)

VARIABLES
    pc, labels, a1, a2, cl, dataset,        \* create_dataset and its locals
    e_fn, e_x, e_y, e_min, e_max, e_res,    \* calls of the easing library
    c_pc, c_a1, c_a2, p1, p2, prob, cls     \* calls of the classifier chain

dvars == <<pc, labels, a1, a2, cl, dataset>>
evars == <<e_fn, e_x, e_y, e_min, e_max, e_res>>
cvars == <<c_pc, c_a1, c_a2, p1, p2, prob, cls>>
vars == <<dvars, evars, cvars>>

NoDataset == [a1 |-> <<>>, a2 |-> <<>>, labels |-> <<>>, cl |-> <<>>]

----------------------------------------------------------------------------
(* create_dataset: one run of the generator, whatever random() returns.    *)

BuildLabels ==
    /\ pc = "labels"
    /\ labels' = [i \in 1..num_points |-> i - 1]
    /\ pc' = "a1"
    /\ UNCHANGED <<a1, a2, cl, dataset, evars, cvars>>

DrawA1 ==
    /\ pc = "a1"
    /\ IF Len(a1) < num_points
       THEN /\ \E u \in RandomDraws : a1' = Append(a1, create_a1_value(u))
            /\ pc' = pc
       ELSE /\ a1' = a1
            /\ pc' = "a2"
    /\ UNCHANGED <<labels, a2, cl, dataset, evars, cvars>>

DrawA2 ==
    /\ pc = "a2"
    /\ IF Len(a2) < num_points
       THEN /\ \E u \in RandomDraws : a2' = Append(a2, create_a2_value(u))
            /\ pc' = pc
       ELSE /\ a2' = a2
            /\ pc' = "cl"
    /\ UNCHANGED <<labels, a1, cl, dataset, evars, cvars>>

\* cl = [compute_class(a1, a2) for a1, a2 in zip(a1, a2)], one pair a step.
Classify ==
    /\ pc = "cl"
    /\ IF Len(cl) < Len(a1) /\ Len(cl) < Len(a2)
       THEN /\ cl' = Append(cl, compute_class(a1[Len(cl) + 1], a2[Len(cl) + 1]))
            /\ pc' = pc
       ELSE /\ cl' = cl
            /\ pc' = "return"
    /\ UNCHANGED <<labels, a1, a2, dataset, evars, cvars>>

Return ==
    /\ pc = "return"
    /\ dataset' = [a1 |-> a1, a2 |-> a2, labels |-> labels, cl |-> cl]
    /\ pc' = "done"
    /\ UNCHANGED <<labels, a1, a2, cl, evars, cvars>>

Init ==
    /\ pc = "labels" /\ labels = <<>> /\ a1 = <<>> /\ a2 = <<>> /\ cl = <<>>
    /\ dataset = NoDataset
    /\ e_fn = "none" /\ e_x = None /\ e_y = None /\ e_min = None /\ e_max = None
    /\ e_res = <<>>
    /\ c_pc = "idle" /\ c_a1 = None /\ c_a2 = None
    /\ p1 = None /\ p2 = None /\ prob = None /\ cls = None

Next == BuildLabels \/ DrawA1 \/ DrawA2 \/ Classify \/ Return

Spec == Init /\ [][Next]_vars

----------------------------------------------------------------------------
(* The easing library called on its own: a function, an interval given in  *)
(* either order or of zero width, and two points x <= y.  The calls made   *)
(* are f(x, min_v, max_v), f(x, max_v, min_v) and f(y, min_v, max_v).      *)

GridSteps == 4

Endpoints == {Dy(-10, 0), Dy(10, 0), Dy(45, -1)}

\* The points tried for an interval: a grid across it and one step beyond
\* either end, its ends, and the floats next to its ends.
Points(a, b) ==
    LET lo == Min2(a, b)
        hi == Max2(a, b)
        w  == FSub(hi, lo)
    IN {FAdd(lo, FMul(FDiv(Dy(k, 0), Dy(GridSteps, 0)), w)) : k \in -1..(GridSteps + 1)}
       \cup {lo, hi, NextDown(lo), NextUp(lo), NextDown(hi), NextUp(hi)}

InitEase ==
    /\ pc = "idle" /\ labels = <<>> /\ a1 = <<>> /\ a2 = <<>> /\ cl = <<>>
    /\ dataset = NoDataset
    /\ e_fn \in {"ease_constant", "ease_linear", "ease_in_out"}
    /\ e_min \in Endpoints
    /\ e_max \in Endpoints
    /\ e_x \in Points(e_min, e_max)
    /\ e_y \in {q \in Points(e_min, e_max) : Le(e_x, q)}
    /\ e_res = <<>>
    /\ c_pc = "idle" /\ c_a1 = None /\ c_a2 = None
    /\ p1 = None /\ p2 = None /\ prob = None /\ cls = None

CallArgs(k) ==
    CASE k = 1 -> <<e_x, e_min, e_max>>
      [] k = 2 -> <<e_x, e_max, e_min>>
      [] k = 3 -> <<e_y, e_min, e_max>>

Call_ease_constant ==
    /\ e_fn = "ease_constant" /\ Len(e_res) < 3
    /\ LET arg == CallArgs(Len(e_res) + 1)
       IN e_res' = Append(e_res, ease_constant(arg[1], arg[2], arg[3]))
    /\ UNCHANGED <<e_fn, e_x, e_y, e_min, e_max, dvars, cvars>>

Call_ease_linear ==
    /\ e_fn = "ease_linear" /\ Len(e_res) < 3
    /\ LET arg == CallArgs(Len(e_res) + 1)
       IN e_res' = Append(e_res, ease_linear(arg[1], arg[2], arg[3]))
    /\ UNCHANGED <<e_fn, e_x, e_y, e_min, e_max, dvars, cvars>>

Call_ease_in_out ==
    /\ e_fn = "ease_in_out" /\ Len(e_res) < 3
    /\ LET arg == CallArgs(Len(e_res) + 1)
       IN e_res' = Append(e_res, ease_in_out(arg[1], arg[2], arg[3]))
    /\ UNCHANGED <<e_fn, e_x, e_y, e_min, e_max, dvars, cvars>>

NextEase == Call_ease_constant \/ Call_ease_linear \/ Call_ease_in_out

SpecEase == InitEase /\ [][NextEase]_vars

----------------------------------------------------------------------------
(* The classifier chain called on a pair of feature values, inside or      *)
(* outside the feature ranges.                                             *)

\* A grid across a feature range and one step beyond either end.
RangeGrid(r) ==
    {FAdd(r[1], FMul(FDiv(Dy(k, 0), Dy(2 * GridSteps, 0)), FSub(r[2], r[1]))) :
        k \in -1..(2 * GridSteps + 1)}

Around(S) == S \cup {NextDown(v) : v \in S} \cup {NextUp(v) : v \in S}

\* The grid, the ends of the curve segments with the floats next to them,
\* and the points 16.25 and 110 where a rising ramp is at its middle.
A1Inputs ==
    RangeGrid(a1_range) \cup Around({Dy(10, 0), Dy(45, -1), Dy(55, -1), Dy(40, 0)})
        \cup {Dy(65, -2)}

A2Inputs ==
    RangeGrid(a2_range) \cup Around({Dy(100, 0), Dy(120, 0), Dy(130, 0), Dy(200, 0)})
        \cup {Dy(110, 0)}

InitCurve ==
    /\ pc = "idle" /\ labels = <<>> /\ a1 = <<>> /\ a2 = <<>> /\ cl = <<>>
    /\ dataset = NoDataset
    /\ e_fn = "none" /\ e_x = None /\ e_y = None /\ e_min = None /\ e_max = None
    /\ e_res = <<>>
    /\ c_pc = "call"
    /\ c_a1 \in A1Inputs
    /\ c_a2 \in A2Inputs
    /\ p1 = None /\ p2 = None /\ prob = None /\ cls = None

Call_sample_curves ==
    /\ c_pc = "call"
    /\ p1' = sample_a1_curve(c_a1)
    /\ p2' = sample_a2_curve(c_a2)
    /\ c_pc' = "sampled"
    /\ UNCHANGED <<c_a1, c_a2, prob, cls, dvars, evars>>

Call_compute_selection_probability ==
    /\ c_pc = "sampled"
    /\ prob' = compute_selection_probability(c_a1, c_a2)
    /\ c_pc' = "multiplied"
    /\ UNCHANGED <<c_a1, c_a2, p1, p2, cls, dvars, evars>>

Call_compute_class ==
    /\ c_pc = "multiplied"
    /\ cls' = compute_class(c_a1, c_a2)
    /\ c_pc' = "done"
    /\ UNCHANGED <<c_a1, c_a2, p1, p2, prob, dvars, evars>>

NextCurve ==
    Call_sample_curves \/ Call_compute_selection_probability \/ Call_compute_class

SpecCurve == InitCurve /\ [][NextCurve]_vars

----------------------------------------------------------------------------
(* Properties of the easing library (under SpecEase).                      *)

ELo == Min2(e_min, e_max)
EHi == Max2(e_min, e_max)
Within(v) == Le(ELo, v) /\ Le(v, EHi)
Ramp == e_fn \in {"ease_linear", "ease_in_out"}

\* C2: for an interval given in either order, ease_constant returns 1 when
\* min(start, end) <= x <= max(start, end), ends included, and 0 otherwise.
C2_ConstantEitherOrder ==
    (Len(e_res) >= 1 /\ e_fn = "ease_constant") =>
        /\ e_res[1] \in {Zero, One}
        /\ e_res[1] = One <=> Within(e_x)

\* C3: an easing interval of zero width never makes ease_linear or
\* ease_in_out raise a division-by-zero fault.
C3_NoDivisionFault ==
    \A i \in 1..Len(e_res) : e_res[i] # ZeroDivisionError

\* C4: for an interval of non-zero width in either order and x strictly
\* outside it, ease_linear and ease_in_out return exactly 0.
C4_ZeroOutside ==
    (Len(e_res) >= 1 /\ Ramp /\ e_min # e_max /\ ~Within(e_x)) => e_res[1] = Zero

\* C5, as claimed: for a # b and x within the interval,
\* ease(x, a, b) = 1 - ease(x, b, a) exactly, for both ramps.
C5_MirrorExact ==
    (Len(e_res) >= 2 /\ Ramp /\ e_min # e_max /\ Within(e_x)) =>
        e_res[1] = FSub(One, e_res[2])

\* 2^-50: four units in the last place of 1.0.
MirrorTolerance == Dy(1, -50)

\* C5, amended: for a # b and x within the interval, ease(x, a, b) and
\* 1 - ease(x, b, a) differ by at most 2^-50, for both ramps.
C5_MirrorWithinTolerance ==
    (Len(e_res) >= 2 /\ Ramp /\ e_min # e_max /\ Within(e_x)) =>
        Le(Abs(AddX(e_res[1], Neg(FSub(One, e_res[2])))), MirrorTolerance)

\* A point strictly inside a smooth ramp where the two sides of the mirror
\* identity differ by a rounding error.
C5_Witness ==
    /\ Len(e_res) >= 2 /\ e_fn = "ease_in_out" /\ e_min # e_max
    /\ Lt(ELo, e_x) /\ Lt(e_x, EHi)
    /\ e_res[1] # FSub(One, e_res[2])
    /\ Lt(Zero, e_res[1]) /\ Lt(e_res[1], One)

\* C8: within its interval ease_in_out is monotonic (non-decreasing for
\* a < b, non-increasing for a > b), is 0 at the low end and 1 at the high
\* end of a rising ramp, and is exactly 0.5 where the position t is 0.5.
C8_SmoothRampMonotone ==
    (Len(e_res) = 3 /\ e_fn = "ease_in_out" /\ e_min # e_max
        /\ Within(e_x) /\ Within(e_y)) =>
        /\ Lt(e_min, e_max) => Le(e_res[1], e_res[3])
        /\ Lt(e_max, e_min) => Le(e_res[3], e_res[1])
        /\ (Lt(e_min, e_max) /\ e_x = e_min) => e_res[1] = Zero
        /\ (Lt(e_min, e_max) /\ e_x = e_max) => e_res[1] = One
        /\ position(e_x, e_min, e_max) = Half => e_res[1] = Half

\* A rising smooth ramp called at its midpoint and at its high end.
C8_Witness ==
    /\ Len(e_res) = 3 /\ e_fn = "ease_in_out" /\ Lt(e_min, e_max)
    /\ position(e_x, e_min, e_max) = Half /\ e_res[1] = Half
    /\ e_y = e_max /\ e_res[3] = One

----------------------------------------------------------------------------
(* Properties of the classifier chain (under SpecCurve).                   *)

InUnit(v) == Le(Zero, v) /\ Le(v, One)

\* The greatest number of a set of numbers.
Greatest(S) == CHOOSE v \in S : \A w \in S : Le(w, v)

\* C1: compute_class returns 0.25 or 0.75, and 0.75 exactly when the
\* selection probability p satisfies 0 < p <= 0.25.
C1_ClassThreshold ==
    c_pc = "done" =>
        /\ cls \in {Quarter, ThreeQuarters}
        /\ cls = ThreeQuarters <=> (Lt(Zero, prob) /\ Le(prob, Quarter))

\* A sample whose selection probability is exactly 0.25, labelled 0.75.
C1_Witness == c_pc = "done" /\ prob = Quarter /\ cls = ThreeQuarters

\* C6: for inputs inside or outside the feature ranges both curve samples
\* lie in [0, 1], and so does the selection probability, their product.
C6_UnitInterval ==
    /\ c_pc \in {"sampled", "multiplied", "done"} => InUnit(p1) /\ InUnit(p2)
    /\ c_pc \in {"multiplied", "done"} => InUnit(prob) /\ prob = FMul(p1, p2)

\* A sample with both scores, and their product, strictly between 0 and 1.
C6_Witness ==
    /\ c_pc = "done"
    /\ Lt(Zero, p1) /\ Lt(p1, One) /\ Lt(Zero, p2) /\ Lt(p2, One)
    /\ Lt(Zero, prob) /\ Lt(prob, One)

\* C9: each curve is the pointwise maximum of its rising ramp, its plateau
\* and its reversed ramp, and a sample with a1 in [22.5, 27.5] and a2 in
\* [120, 130] has both scores 1, selection probability 1 and class 0.25.
C9_Plateau ==
    c_pc = "done" =>
        /\ p1 = Greatest({Zero, ease_in_out(c_a1, Dy(10, 0), Dy(45, -1)),
                          ease_constant(c_a1, Dy(45, -1), Dy(55, -1)),
                          ease_in_out(c_a1, Dy(40, 0), Dy(55, -1))})
        /\ p2 = Greatest({Zero, ease_in_out(c_a2, Dy(100, 0), Dy(120, 0)),
                          ease_constant(c_a2, Dy(120, 0), Dy(130, 0)),
                          ease_in_out(c_a2, Dy(200, 0), Dy(130, 0))})
        /\ (Le(Dy(45, -1), c_a1) /\ Le(c_a1, Dy(55, -1))
                /\ Le(Dy(120, 0), c_a2) /\ Le(c_a2, Dy(130, 0))) =>
            (p1 = One /\ p2 = One /\ prob = One /\ cls = Quarter)

\* The sample a1 = 22.5, a2 = 120, on the boundary of both plateaus.
C9_Witness ==
    /\ c_pc = "done" /\ c_a1 = Dy(45, -1) /\ c_a2 = Dy(120, 0)
    /\ p1 = One /\ p2 = One /\ cls = Quarter

\* C10: when a1 <= 10 or a1 >= 40 or a2 <= 100 or a2 >= 200, a curve
\* evaluates to 0, the selection probability is 0 and the class is 0.25.
C10_OutsideSupport ==
    (c_pc = "done" /\ (Le(c_a1, Dy(10, 0)) \/ Le(Dy(40, 0), c_a1)
                        \/ Le(c_a2, Dy(100, 0)) \/ Le(Dy(200, 0), c_a2))) =>
        /\ p1 = Zero \/ p2 = Zero
        /\ prob = Zero
        /\ cls = Quarter

\* The sample a1 = 0, a2 = 100.
C10_Witness ==
    /\ c_pc = "done" /\ c_a1 = Zero /\ c_a2 = Dy(100, 0)
    /\ p1 = Zero /\ prob = Zero /\ cls = Quarter

----------------------------------------------------------------------------
(* Properties of the dataset generator (under Spec).                       *)

\* C7: the dataset returned has num_points entries in each of a1, a2,
\* labels and cl; labels is 0, 1, ..., num_points - 1; every a1[i] is in
\* [0, 50] and every a2[i] in [100, 200]; and cl[i] is the class of
\* (a1[i], a2[i]), whatever the random source returns.
C7_DatasetShape ==
    pc = "done" =>
        /\ Len(dataset.a1) = num_points /\ Len(dataset.a2) = num_points
        /\ Len(dataset.labels) = num_points /\ Len(dataset.cl) = num_points
        /\ \A i \in 1..num_points :
            /\ dataset.labels[i] = i - 1
            /\ Le(Dy(0, 0), dataset.a1[i]) /\ Le(dataset.a1[i], Dy(50, 0))
            /\ Le(Dy(100, 0), dataset.a2[i]) /\ Le(dataset.a2[i], Dy(200, 0))
            /\ dataset.cl[i] = compute_class(dataset.a1[i], dataset.a2[i])

\* A returned dataset holding both classes.
C7_Witness ==
    /\ pc = "done"
    /\ \E i, j \in 1..num_points :
        dataset.cl[i] = ThreeQuarters /\ dataset.cl[j] = Quarter

=============================================================================
